---- MODULE Spec2Model ----
(***************************************************************************)
(* make_ssh_config: the case-insensitive map (util.py), the merge engine,  *)
(* the match header, the value quoting, the template renderer, the layer   *)
(* builder and the main run (__main__.py), as state machines.              *)
(*                                                                         *)
(* Python values are modelled as strings: NULL is None, "1", "2", ... are  *)
(* scalars, "{{v}}" is the Jinja expression reading the variable v.        *)
(***************************************************************************)
EXTENDS Integers, Sequences, FiniteSets, TLC

VARIABLES
    ci_data,      \* CIDict._data: the entries <<folded key, (key, value)>> in dict order
    ci_first,     \* history: for each live entry, the key as first inserted, in order
    ci_last,      \* the last CIDict operation and what it returned
    ci_n,         \* number of CIDict operations done
    mg_a,         \* merge_config's argument a, as its items() in order
    mg_b,         \* merge_config's argument b, as its items() in order
    mg_out,       \* what merge_config returned or raised
    mg_pc,        \* "start" before the call, "done" after
    hd_layer,     \* the Layer whose header_line is taken
    hd_out,       \* what header_line returned or raised
    hd_pc,
    q_in,         \* maybe_quote's argument, a sequence of characters
    q_out,        \* what maybe_quote returned or raised
    q_pc,
    heap,         \* the dict and CIDict objects, by identity (index)
    layers,       \* the Layer objects, by identity (index)
    registry,     \* ConfigMaker.registry: name -> Layer identity (0: not registered)
    entries,      \* ConfigMaker.entries: Layer identities in order
    last,         \* the last add_record call: its record, what it raised, what it read
    main_pc,      \* where main() is
    main_records, \* yaml.safe_load's result
    main_i,       \* the loop index of main's current loop
    main_buf,     \* the StringIO buffer
    main_dest,    \* the output destination: [kind, exists, content]
    main_dest0,   \* history: the destination before the run
    main_err,     \* the exception main died of
    rv_graph,     \* render_value's input: node -> its children in order
    rv_stack,     \* the active render_value calls on list and dict nodes
    rv_memo,      \* memo: input node -> result node (0: not in memo)
    rv_out,       \* the result nodes: result node -> its children in order
    rv_calls,     \* history: node -> number of times its children were rendered
    rv_pc

ciVars == <<ci_data, ci_first, ci_last, ci_n>>
mgVars == <<mg_a, mg_b, mg_out, mg_pc>>
hdVars == <<hd_layer, hd_out, hd_pc>>
qVars == <<q_in, q_out, q_pc>>
makerVars == <<heap, layers, registry, entries, last>>
mainVars == <<main_pc, main_records, main_i, main_buf, main_dest, main_dest0, main_err>>
rvVars == <<rv_graph, rv_stack, rv_memo, rv_out, rv_calls, rv_pc>>

vars == <<ciVars, mgVars, hdVars, qVars, makerVars, mainVars, rvVars>>

\* The variables a specification does not use keep these values.
CIIdle == ci_data = <<>> /\ ci_first = <<>> /\ ci_last = <<>> /\ ci_n = 0
MgIdle == mg_a = <<>> /\ mg_b = <<>> /\ mg_out = <<>> /\ mg_pc = ""
HdIdle == hd_layer = <<>> /\ hd_out = <<>> /\ hd_pc = ""
QIdle == q_in = <<>> /\ q_out = <<>> /\ q_pc = ""
MakerIdle == heap = <<>> /\ layers = <<>> /\ registry = <<>> /\ entries = <<>> /\ last = <<>>
MainIdle ==
    /\ main_pc = "" /\ main_records = <<>> /\ main_i = 0 /\ main_buf = ""
    /\ main_dest = <<>> /\ main_dest0 = <<>> /\ main_err = ""
RvIdle ==
    /\ rv_graph = <<>> /\ rv_stack = <<>> /\ rv_memo = <<>> /\ rv_out = <<>>
    /\ rv_calls = <<>> /\ rv_pc = ""

NULL == "null"
KEYERROR == "KeyError"

(***************************************************************************)
(* str.casefold() on the keys the model uses.                              *)
(***************************************************************************)
casefold(k) ==
    CASE k \in {"Foo", "FOO", "foo"} -> "foo"
      [] k \in {"Bar", "bar"} -> "bar"
      [] k \in {"A", "a"} -> "a"
      [] k \in {"B", "b"} -> "b"
      [] k \in {"C", "c"} -> "c"
      [] k \in {"User", "user"} -> "user"
      [] OTHER -> k

\* Index of the entry of a dict (a sequence of [fk, k, v]) stored under fk, or 0.
IndexOf(data, fk) ==
    IF \E i \in 1..Len(data) : data[i].fk = fk
    THEN CHOOSE i \in 1..Len(data) : data[i].fk = fk
    ELSE 0

Without(data, i) == SubSeq(data, 1, i - 1) \o SubSeq(data, i + 1, Len(data))

\* dict.__setitem__ on the underlying dict: a present key keeps its position.
DictStore(data, fk, k, v) ==
    LET i == IndexOf(data, fk)
        e == [fk |-> fk, k |-> k, v |-> v]
    IN IF i = 0 THEN Append(data, e) ELSE [data EXCEPT ![i] = e]

\* A mutant of CIDict.__setitem__: the key is stored unfolded.
CISetItemUnfolded(data, key, value) == DictStore(data, key, key, value)

\* CIDict.__setitem__
CISetItem(data, key, value) == DictStore(data, casefold(key), key, value)

\* CIDict.__getitem__: the value, or KEYERROR
CIGetItem(data, key) ==
    LET i == IndexOf(data, casefold(key))
    IN IF i = 0 THEN KEYERROR ELSE data[i].v

\* CIDict.__delitem__: [err, data]
CIDelItem(data, key) ==
    LET i == IndexOf(data, casefold(key))
    IN IF i = 0 THEN [err |-> KEYERROR, data |-> data]
       ELSE [err |-> "", data |-> Without(data, i)]

\* CIDict.pop(key) with no default: the key is looked up as given, not folded.
CIPop(data, key) ==
    LET i == IndexOf(data, key)
    IN IF i = 0 THEN [err |-> KEYERROR, data |-> data, ret |-> NULL]
       ELSE [err |-> "", data |-> Without(data, i), ret |-> data[i].v]

\* CIDict.__iter__: the stored keys, in dict order
CIIter(data) == [i \in 1..Len(data) |-> data[i].k] \o <<>>

\* MutableMapping.items() of a CIDict: (key, self[key]) for each key of __iter__
CIItems(data) == [i \in 1..Len(data) |-> <<data[i].k, CIGetItem(data, data[i].k)>>] \o <<>>

(***************************************************************************)
(* The CIDict under any sequence of set, delete and pop.                   *)
(***************************************************************************)
MaxOps == 3
CIKeys == {"Foo", "foo", "FOO", "bar"}
CIValues == {"1", "2"}

CIInit ==
    /\ MgIdle /\ HdIdle /\ QIdle /\ MakerIdle /\ MainIdle /\ RvIdle
    /\ ci_data = <<>>
    /\ ci_first = <<>>
    /\ ci_last = [op |-> "init", key |-> "", value |-> "", err |-> ""]
    /\ ci_n = 0

\* The history after a set: a new entry is appended with its casing, a live one
\* records the casing of this set. It follows what a case-insensitive ordered
\* map is, not _data.
HistSet(first, key) ==
    LET i == IndexOf(first, casefold(key))
    IN IF i = 0
       THEN Append(first, [fk |-> casefold(key), first |-> key, cur |-> key])
       ELSE [first EXCEPT ![i].cur = key]

\* The history after a delete or pop that returned without error.
HistRemove(first, key, err) ==
    LET i == IndexOf(first, casefold(key))
    IN IF err = "" /\ i # 0 THEN Without(first, i) ELSE first

CISet ==
    /\ ci_n < MaxOps
    /\ \E key \in CIKeys, value \in CIValues :
         /\ ci_data' = CISetItem(ci_data, key, value)
         /\ ci_last' = [op |-> "set", key |-> key, value |-> value, err |-> ""]
         /\ ci_first' = HistSet(ci_first, key)
    /\ ci_n' = ci_n + 1
    /\ UNCHANGED <<mgVars, hdVars, qVars, makerVars, mainVars, rvVars>>

CIDel ==
    /\ ci_n < MaxOps
    /\ \E key \in CIKeys :
         LET r == CIDelItem(ci_data, key)
         IN /\ ci_data' = r.data
            /\ ci_last' = [op |-> "del", key |-> key, value |-> "", err |-> r.err]
            /\ ci_first' = HistRemove(ci_first, key, r.err)
    /\ ci_n' = ci_n + 1
    /\ UNCHANGED <<mgVars, hdVars, qVars, makerVars, mainVars, rvVars>>

CIPopKey ==
    /\ ci_n < MaxOps
    /\ \E key \in CIKeys :
         LET r == CIPop(ci_data, key)
         IN /\ ci_data' = r.data
            /\ ci_last' = [op |-> "pop", key |-> key, value |-> r.ret, err |-> r.err]
            /\ ci_first' = HistRemove(ci_first, key, r.err)
    /\ ci_n' = ci_n + 1
    /\ UNCHANGED <<mgVars, hdVars, qVars, makerVars, mainVars, rvVars>>

CINext == CISet \/ CIDel \/ CIPopKey

\* The CIDict under any sequence of set, delete and pop
SpecCIDict == CIInit /\ [][CINext]_vars

\* Reads are case-insensitive, and a set is read back under every casing.
CIReadsFold ==
    /\ \A k1 \in CIKeys, k2 \in CIKeys :
         casefold(k1) = casefold(k2) => CIGetItem(ci_data, k1) = CIGetItem(ci_data, k2)
    /\ ci_last.op = "set" =>
         \A k \in CIKeys :
           casefold(k) = casefold(ci_last.key) => CIGetItem(ci_data, k) = ci_last.value

\* Iteration follows the order of first insertion; a re-set does not move an entry.
CIOrderIsFirstInsertion ==
    /\ Len(ci_data) = Len(ci_first)
    /\ \A i \in 1..Len(ci_data) : casefold(CIIter(ci_data)[i]) = ci_first[i].fk

RECURSIVE MergeBase(_, _, _)
\* for k, v in a.items(): if v is not None: o[k] = v
MergeBase(o, items, i) ==
    IF i > Len(items) THEN o
    ELSE MergeBase(IF items[i][2] # NULL THEN CISetItem(o, items[i][1], items[i][2]) ELSE o,
                   items, i + 1)

RECURSIVE MergeOverlay(_, _, _)
\* for k, v in b.items(): if v is None: o.pop(k) else: o[k] = v
MergeOverlay(o, items, i) ==
    IF i > Len(items) THEN [err |-> "", data |-> o]
    ELSE IF items[i][2] = NULL
         THEN LET r == CIPop(o, items[i][1])
              IN IF r.err # "" THEN [err |-> r.err, data |-> o]
                 ELSE MergeOverlay(r.data, items, i + 1)
         ELSE MergeOverlay(CISetItem(o, items[i][1], items[i][2]), items, i + 1)

\* A dict (ci FALSE) or CIDict (ci TRUE) object, and its items() in order
NewObject(ci) == [ci |-> ci, data |-> <<>>]
DictOf(items) ==
    [ci |-> FALSE,
     data |-> [i \in 1..Len(items) |->
                 [fk |-> items[i][1], k |-> items[i][1], v |-> items[i][2]]] \o <<>>]
ItemsOf(obj) ==
    IF obj.ci THEN CIItems(obj.data)
    ELSE [i \in 1..Len(obj.data) |-> <<obj.data[i].k, obj.data[i].v>>] \o <<>>

\* A mutant of merge_config: the result is built in b itself instead of a new CIDict.
merge_config_dest_b(h, a, b) == b

\* o = CIDict(): the identity of merge_config's result, a new object
merge_config_dest(h, a, b) == Len(h) + 1

\* merge_config(a, b) on the objects a and b of the heap h: [err, heap, o], o the
\* identity of the returned CIDict
merge_config(h, a, b) ==
    LET o == merge_config_dest(h, a, b)
        h0 == IF o > Len(h) THEN Append(h, NewObject(TRUE)) ELSE h
        h1 == [h0 EXCEPT ![o].data = MergeBase(@, ItemsOf(h0[a]), 1)]
        r == MergeOverlay(h1[o].data, ItemsOf(h1[b]), 1)
    IN [err |-> r.err, heap |-> [h1 EXCEPT ![o].data = r.data], o |-> o]

\* CIDict.__eq__ compares the folded key -> value maps
CIAsMap(data) == {<<data[i].fk, data[i].v>> : i \in 1..Len(data)}

MaxItems == 2
MergeKeys == {"A", "B", "C", "b"}
MergeValues == {NULL, "1", "2", "3"}

\* The mappings of at most n items over distinct keys, as item sequences.
ItemSeqs(keys, values, n) ==
    UNION {{s \in [1..m -> keys \X values] :
              \A i \in 1..m, j \in 1..m : i # j => s[i][1] # s[j][1]} : m \in 0..n}

MgInit ==
    /\ CIIdle /\ HdIdle /\ QIdle /\ MakerIdle /\ MainIdle /\ RvIdle
    /\ mg_a \in ItemSeqs(MergeKeys, MergeValues, MaxItems)
    /\ mg_b \in ItemSeqs(MergeKeys, MergeValues, MaxItems)
    /\ mg_out = [err |-> "", data |-> <<>>]
    /\ mg_pc = "start"

MgCall ==
    /\ mg_pc = "start"
    /\ LET r == merge_config(<<DictOf(mg_a), DictOf(mg_b)>>, 1, 2)
       IN mg_out' = [err |-> r.err, data |-> IF r.err = "" THEN r.heap[r.o].data ELSE <<>>]
    /\ mg_pc' = "done"
    /\ UNCHANGED <<mg_a, mg_b>>
    /\ UNCHANGED <<ciVars, hdVars, qVars, makerVars, mainVars, rvVars>>

MgNext == MgCall

\* merge_config on every pair of small mappings
SpecMerge == MgInit /\ [][MgNext]_vars

RECURSIVE StatedMerge(_, _, _, _)
\* The merge as the claim states it, on folded key -> value maps: the non-null
\* entries of base, then each overlay key in order: null removes the entry with
\* that key (case-insensitively) if present, any other value sets or replaces it.
StatedMerge(m, a, b, i) ==
    IF i <= Len(a)
    THEN StatedMerge(IF a[i][2] = NULL THEN m
                     ELSE {e \in m : e[1] # casefold(a[i][1])}
                            \cup {<<casefold(a[i][1]), a[i][2]>>},
                     a, b, i + 1)
    ELSE IF i <= Len(a) + Len(b)
    THEN LET kv == b[i - Len(a)]
             rest == {e \in m : e[1] # casefold(kv[1])}
         IN StatedMerge(IF kv[2] = NULL THEN rest ELSE rest \cup {<<casefold(kv[1]), kv[2]>>},
                        a, b, i + 1)
    ELSE m

\* C1: merge_config(base, overlay) returns the map holding every non-null entry
\* of base, and then for each overlay key in order, a null value removes the
\* case-insensitively equal entry if present (no error if absent) and any other
\* value sets or replaces it.
C1_MergeWithDelete ==
    mg_pc = "done" =>
      /\ mg_out.err = ""
      /\ CIAsMap(mg_out.data) = StatedMerge({}, mg_a, mg_b, 1)

(***************************************************************************)
(* Layer.header_line                                                       *)
(***************************************************************************)
RECURSIVE Join(_, _)
\* sep.join(parts)
Join(parts, sep) ==
    IF Len(parts) = 0 THEN ""
    ELSE IF Len(parts) = 1 THEN parts[1]
    ELSE parts[1] \o sep \o Join(Tail(parts), sep)

NoHost == [none |-> TRUE, list |-> <<>>]
HostOf(list) == [none |-> FALSE, list |-> list]
NoMatch == [none |-> TRUE, all |-> FALSE, canonical |-> FALSE, host |-> <<>>,
            originalhost |-> <<>>, user |-> <<>>, localuser |-> <<>>, exec |-> NULL]

\* Layer.header_line: [err, line]; a layer with neither host nor match returns None
header_line(host, match) ==
    IF ~host.none
    THEN [err |-> "", line |-> "Host " \o Join(host.list, " ") \o "\n"]
    ELSE IF ~match.none
    THEN IF match.all /\ (match.canonical \/ match.exec \notin {NULL, ""} \/ match.host # <<>>
                          \/ match.originalhost # <<>> \/ match.user # <<>>
                          \/ match.localuser # <<>>)
         THEN [err |-> "ValueError: The 'all' token must be alone or immediately after 'canonical'",
               line |-> ""]
         ELSE LET args ==
                    (IF match.canonical THEN <<"canonical">> ELSE <<>>)
                 \o (IF match.all THEN <<"all">> ELSE <<>>)
                 \o (IF match.host # <<>> THEN <<"host", Join(match.host, ",")>> ELSE <<>>)
                 \o (IF match.originalhost # <<>>
                     THEN <<"originalhost", Join(match.originalhost, ",")>> ELSE <<>>)
                 \o (IF match.user # <<>> THEN <<"user", Join(match.user, ",")>> ELSE <<>>)
                 \o (IF match.localuser # <<>>
                     THEN <<"localuser", Join(match.localuser, ",")>> ELSE <<>>)
                 \o (IF match.exec \notin {NULL, ""} THEN <<"exec", match.exec>> ELSE <<>>)
              IN [err |-> "", line |-> "Match " \o Join(args, " ") \o "\n"]
    ELSE [err |-> "", line |-> NULL]

HdHostLists == {<<>>, <<"x">>, <<"x", "y">>}
HdUserLists == {<<>>, <<"u">>}
HdMatches ==
    [none : {FALSE}, all : BOOLEAN, canonical : BOOLEAN, host : HdHostLists,
     originalhost : HdUserLists, user : HdUserLists, localuser : HdUserLists,
     exec : {NULL, "e"}]

HdInit ==
    /\ CIIdle /\ MgIdle /\ QIdle /\ MakerIdle /\ MainIdle /\ RvIdle
    /\ hd_layer \in
         [host : {NoHost}, match : HdMatches]
         \cup [host : {HostOf(l) : l \in HdHostLists}, match : {NoMatch}]
    /\ hd_out = [err |-> "", line |-> ""]
    /\ hd_pc = "start"

HdCall ==
    /\ hd_pc = "start"
    /\ hd_out' = header_line(hd_layer.host, hd_layer.match)
    /\ hd_pc' = "done"
    /\ UNCHANGED hd_layer
    /\ UNCHANGED <<ciVars, mgVars, qVars, makerVars, mainVars, rvVars>>

HdNext == HdCall

\* header_line on every small layer
SpecHeader == HdInit /\ [][HdNext]_vars

\* The header tokens in the order the claim fixes.
StatedTokens(m) ==
       (IF m.canonical THEN <<"canonical">> ELSE <<>>)
    \o (IF m.all THEN <<"all">> ELSE <<>>)
    \o (IF m.host # <<>> THEN <<"host " \o Join(m.host, ",")>> ELSE <<>>)
    \o (IF m.originalhost # <<>> THEN <<"originalhost " \o Join(m.originalhost, ",")>> ELSE <<>>)
    \o (IF m.user # <<>> THEN <<"user " \o Join(m.user, ",")>> ELSE <<>>)
    \o (IF m.localuser # <<>> THEN <<"localuser " \o Join(m.localuser, ",")>> ELSE <<>>)
    \o (IF m.exec # NULL THEN <<"exec " \o m.exec>> ELSE <<>>)

\* C4: for a match layer header_line raises if and only if all is true while any
\* of exec/host/originalhost/user/localuser is non-empty, and otherwise returns
\* 'Match ' and the tokens in the order canonical, all, host, originalhost, user,
\* localuser, exec ({canonical, all} gives 'Match canonical all').
C4_AllAfterCanonical ==
    (hd_pc = "done" /\ ~hd_layer.match.none) =>
      LET m == hd_layer.match
          others == m.exec # NULL \/ m.host # <<>> \/ m.originalhost # <<>>
                    \/ m.user # <<>> \/ m.localuser # <<>>
      IN /\ (hd_out.err # "") <=> (m.all /\ others)
         /\ hd_out.err = "" => hd_out.line = "Match " \o Join(StatedTokens(m), " ") \o "\n"

(***************************************************************************)
(* maybe_quote                                                             *)
(***************************************************************************)
Whitespace == {" ", "\t"}

RECURSIVE SplitFrom(_, _, _, _)
\* str.split(): the maximal runs of non-whitespace characters
SplitFrom(s, i, cur, parts) ==
    IF i > Len(s) THEN (IF cur = <<>> THEN parts ELSE Append(parts, cur))
    ELSE IF s[i] \in Whitespace
         THEN SplitFrom(s, i + 1, <<>>, IF cur = <<>> THEN parts ELSE Append(parts, cur))
         ELSE SplitFrom(s, i + 1, Append(cur, s[i]), parts)

split(s) == SplitFrom(s, 1, <<>>, <<>>)

HasQuote(s) == \E i \in 1..Len(s) : s[i] = "\""

\* A mutant of maybe_quote: the double quote is rejected before the tokens are counted.
maybe_quote_strict(s) ==
    IF HasQuote(s) THEN [err |-> "ValueError: Double quote character", out |-> <<>>]
    ELSE IF Len(split(s)) < 2 THEN [err |-> "", out |-> s]
    ELSE [err |-> "", out |-> <<"\"">> \o s \o <<"\"">>]

\* maybe_quote(s): [err, out]
maybe_quote(s) ==
    IF Len(split(s)) < 2 THEN [err |-> "", out |-> s]
    ELSE IF HasQuote(s) THEN [err |-> "ValueError: Double quote character", out |-> <<>>]
    ELSE [err |-> "", out |-> <<"\"">> \o s \o <<"\"">>]

MaxStrLen == 4
Chars == {"a", " ", "\""}

QInit ==
    /\ CIIdle /\ MgIdle /\ HdIdle /\ MakerIdle /\ MainIdle /\ RvIdle
    /\ q_in \in UNION {[1..n -> Chars] : n \in 0..MaxStrLen}
    /\ q_out = [err |-> "", out |-> <<>>]
    /\ q_pc = "start"

QCall ==
    /\ q_pc = "start"
    /\ q_out' = maybe_quote(q_in)
    /\ q_pc' = "done"
    /\ UNCHANGED q_in
    /\ UNCHANGED <<ciVars, mgVars, hdVars, makerVars, mainVars, rvVars>>

QNext == QCall

\* maybe_quote on every short string
SpecQuote == QInit /\ [][QNext]_vars

\* The number of whitespace-delimited tokens: the places where a token starts.
NumTokens(s) ==
    Cardinality({i \in 1..Len(s) :
                   s[i] \notin Whitespace /\ (i = 1 \/ s[i - 1] \in Whitespace)})

QuotedOrSame ==
    IF NumTokens(q_in) > 1
    THEN q_out.err = "" /\ q_out.out = <<"\"">> \o q_in \o <<"\"">>
    ELSE q_out.err = "" /\ q_out.out = q_in

\* C6 as stated: every value that contains a double quote raises, whatever its
\* number of tokens; any other value is wrapped in double quotes when it has more
\* than one token and written unchanged otherwise.
C6_AnyQuoteRaises ==
    q_pc = "done" => IF HasQuote(q_in) THEN q_out.err # "" ELSE QuotedOrSame

\* C6 amended: a value raises if and only if it contains a double quote AND has
\* more than one whitespace-delimited token; any other value is wrapped in double
\* quotes when it has more than one token and written unchanged otherwise (a
\* single token that contains a double quote included).
C6_QuoteRaisesWhenQuoting ==
    q_pc = "done" =>
      IF HasQuote(q_in) /\ NumTokens(q_in) > 1 THEN q_out.err # "" ELSE QuotedOrSame

\* A single token that contains a double quote was written unchanged.
C6_Witness ==
    /\ q_pc = "done"
    /\ HasQuote(q_in)
    /\ NumTokens(q_in) = 1
    /\ q_out = [err |-> "", out |-> q_in]

(***************************************************************************)
(* ConfigMaker: render_value on scalars and flat mappings, add_record      *)
(***************************************************************************)
\* yaml_str_list on a flat list: None items are dropped
yaml_str_list(o) == SelectSeq(o, LAMBDA x : x # NULL)

\* value.startswith('{{') and value.endswith('}}'), for the strings the model uses
IsExpression(value) == value \in {"{{v}}", "{{name}}"}
ExpressionOf(value) == IF value = "{{v}}" THEN "v" ELSE "name"

\* tpl_expr(locals_): the variable's value, None for an undefined variable
EvalExpression(expr, locals) ==
    LET i == IndexOf(locals, expr) IN IF i = 0 THEN NULL ELSE locals[i].v

\* render_value on None, an int or a str
RenderScalar(value, locals) ==
    IF IsExpression(value) THEN EvalExpression(ExpressionOf(value), locals) ELSE value

\* render_value on a flat dict: a new dict, the keys kept, each value rendered
RenderDict(data, locals) ==
    [i \in 1..Len(data) |-> [data[i] EXCEPT !.v = RenderScalar(data[i].v, locals)]] \o <<>>

RECURSIVE DictUpdate(_, _, _)
\* dict.update(other)
DictUpdate(data, items, i) ==
    IF i > Len(items) THEN data
    ELSE DictUpdate(DictStore(data, items[i][1], items[i][1], items[i][2]), items, i + 1)

\* {**merged_vars, 'name': name}
LocalsOf(varsData, name) == DictStore(varsData, "name", "name", name)

UNDEFINED_RECORD == "ValueError: Undefined record"
BOTH_SELECTORS == "ValueError: Specifying both host and match is prohibited"

\* The maker as add_record finds it, and what add_record makes of it
MakerOf(h, lay, reg, ent) == [heap |-> h, layers |-> lay, registry |-> reg, entries |-> ent]
Raise(self, e) ==
    [err |-> e, heap |-> self.heap, layers |-> self.layers, registry |-> self.registry,
     entries |-> self.entries]

RECURSIVE MergeLowers(_, _, _, _, _, _)

\* A mutant of the merge loop: a name that is not registered is skipped.
MissingLowerSkipped(h, self, merge, i, varsId, cfgId) ==
    MergeLowers(h, self, merge, i + 1, varsId, cfgId)

\* except KeyError: raise ValueError(f"Undefined record '{lower_name}'")
MissingLower(h, self, merge, i, varsId, cfgId) ==
    [err |-> UNDEFINED_RECORD, heap |-> h, config |-> cfgId]

\* merged_vars.update(lower_layer.vars), and the next name of the loop
FoldedLower(m, self, merge, i, varsId, lowerVars) ==
    IF m.err # "" THEN [err |-> m.err, heap |-> m.heap, config |-> m.o]
    ELSE MergeLowers([m.heap EXCEPT ![varsId].data = DictUpdate(@, ItemsOf(m.heap[lowerVars]), 1)],
                     self, merge, i + 1, varsId, m.o)

\* for lower_name in merge: look the layer up, fold its config and its vars
MergeLowers(h, self, merge, i, varsId, cfgId) ==
    IF i > Len(merge) THEN [err |-> "", heap |-> h, config |-> cfgId]
    ELSE IF self.registry[merge[i]] = 0 THEN MissingLower(h, self, merge, i, varsId, cfgId)
    ELSE FoldedLower(merge_config(h, cfgId, self.layers[self.registry[merge[i]]].config),
                     self, merge, i, varsId, self.layers[self.registry[merge[i]]].vars)

\* normalize_match on a rendered match mapping of valid keys
normalize_match(match) ==
    [match EXCEPT !.host = yaml_str_list(@), !.originalhost = yaml_str_list(@),
                  !.user = yaml_str_list(@), !.localuser = yaml_str_list(@)]

\* A mutant of the own-config fold: the record's config is the base, the
\* inherited config the overlay.
OwnConfigUnder(h, merged, own) == merge_config(h, own, merged)

\* merged_config = merge_config(merged_config, config)
OwnConfigOver(h, merged, own) == merge_config(h, merged, own)

\* if host or match
IsEmitted(host, match) == (~host.none /\ host.list # <<>>) \/ ~match.none

\* name, as dict_gets returns it: a record without name has None
NameOf(record) == IF record.name = "" THEN NULL ELSE record.name

\* layer = Layer(...); if name: registry[name] = layer; if host or match: append
NewLayer(self, record, varsId, host, match, own) ==
    IF own.err # "" THEN Raise(self, own.err)
    ELSE [err |-> "",
          heap |-> own.heap,
          layers |-> Append(self.layers,
                            [config |-> own.o, vars |-> varsId, host |-> host, match |-> match]),
          registry |-> IF record.name # ""
                       THEN [self.registry EXCEPT ![record.name] = Len(self.layers) + 1]
                       ELSE self.registry,
          entries |-> IF IsEmitted(host, match)
                      THEN Append(self.entries, Len(self.layers) + 1) ELSE self.entries]

\* if raw_config: config = render_value(raw_config, {**merged_vars, name, host, match})
\* and the fold of it over the inherited config
AddConfig(self, record, varsId, cfgId, h, locals, host, match) ==
    NewLayer(self, record, varsId, host, match,
             IF record.config # <<>>
             THEN OwnConfigOver(
                    Append(h, [ci |-> FALSE,
                               data |-> RenderDict(DictOf(record.config).data,
                                          DictStore(DictStore(locals, "host", "host",
                                                              IF host.none THEN NULL ELSE "host"),
                                                    "match", "match",
                                                    IF match.none THEN NULL ELSE "match"))]),
                    cfgId, Len(h) + 1)
             ELSE [err |-> "", heap |-> h, o |-> cfgId])

\* host = yaml_str_list(render_value(raw_host, ...)), match = normalize_match(...)
AddSelector(self, record, varsId, cfgId, h, locals) ==
    IF ~record.host.none /\ ~record.match.none THEN Raise(self, BOTH_SELECTORS)
    ELSE AddConfig(self, record, varsId, cfgId, h, locals,
                   IF record.host.none THEN NoHost
                   ELSE HostOf(yaml_str_list([i \in 1..Len(record.host.list) |->
                                                RenderScalar(record.host.list[i], locals)]
                                             \o <<>>)),
                   IF record.host.none /\ ~record.match.none
                   THEN normalize_match(record.match) ELSE NoMatch)

\* merged_vars.update(render_value(raw_vars, {**merged_vars, 'name': name}))
UpdatedVars(h, varsId, rendered) ==
    [Append(h, [ci |-> FALSE, data |-> rendered])
       EXCEPT ![varsId].data = DictUpdate(@, ItemsOf([ci |-> FALSE, data |-> rendered]), 1)]

WithVars(self, record, varsId, cfgId, h) ==
    AddSelector(self, record, varsId, cfgId, h, LocalsOf(h[varsId].data, NameOf(record)))

AddVars(self, record, varsId, low) ==
    IF low.err # "" THEN Raise(self, low.err)
    ELSE WithVars(self, record, varsId, low.config,
                  IF record.vars # <<>>
                  THEN UpdatedVars(low.heap, varsId,
                                   RenderDict(DictOf(record.vars).data,
                                              LocalsOf(low.heap[varsId].data, NameOf(record))))
                  ELSE low.heap)

\* ConfigMaker.add_record(record) on the maker self = [heap, layers, registry,
\* entries]: [err, heap, layers, registry, entries]. A record holds valid keys
\* only; its name is "" when it has none. merged_vars = {} and merged_config =
\* CIDict() are the two new objects of the heap.
add_record(self, record) ==
    AddVars(self, record, Len(self.heap) + 1,
            MergeLowers(self.heap \o <<NewObject(FALSE), NewObject(TRUE)>>, self,
                        yaml_str_list(record.merge), 1,
                        Len(self.heap) + 1, Len(self.heap) + 2))

MaxRecords == 3
Names == {"x", "y"}
MergeLists == {<<>>, <<"x", "y">>, <<"y", "x">>}

\* Records that carry configuration and no selector. With the values
\* "{{name}}" and "{{v}}" each layer's entries tell which record they came from.
TemplateRecords ==
    [name : Names, merge : MergeLists,
     vars : {<<>>, <<<<"v", "{{name}}">>>>},
     config : {<<>>, <<<<"a", "{{v}}">>>>, <<<<"A", "{{name}}">>>>, <<<<"a", NULL>>>>},
     host : {NoHost}, match : {NoMatch}]

MakerInit ==
    /\ CIIdle /\ MgIdle /\ HdIdle /\ QIdle /\ MainIdle /\ RvIdle
    /\ heap = <<>>
    /\ layers = <<>>
    /\ registry = [n \in Names |-> 0]
    /\ entries = <<>>
    /\ last = [record |-> <<>>, err |-> "", lowers |-> <<>>, before |-> {}, named |-> {},
               emitted |-> <<>>]

\* One call of add_record. An exception leaves the maker as it was. The history
\* in last: the layers the merge names were bound to when the call began, the
\* names successful calls had registered before this call and have registered
\* now, and the layers whose host or match resolved to non-null.
AddRecord(record) ==
    \E r \in {add_record(MakerOf(heap, layers, registry, entries), record)} :
       /\ heap' = r.heap
       /\ layers' = r.layers
       /\ registry' = r.registry
       /\ entries' = r.entries
       /\ last' = [record |-> record,
                   err |-> r.err,
                   lowers |-> [i \in 1..Len(yaml_str_list(record.merge)) |->
                                 registry[yaml_str_list(record.merge)[i]]],
                   before |-> last.named,
                   named |-> IF r.err = "" /\ record.name # ""
                             THEN last.named \cup {record.name} ELSE last.named,
                   emitted |-> IF r.err = "" /\ (~r.layers[Len(r.layers)].host.none
                                                 \/ ~r.layers[Len(r.layers)].match.none)
                               THEN Append(last.emitted, Len(r.layers)) ELSE last.emitted]

\* main stops at the first add_record that raises
AddTemplateRecord ==
    /\ Len(layers) < MaxRecords
    /\ last.err = ""
    /\ \E record \in TemplateRecords : AddRecord(record)
    /\ UNCHANGED <<ciVars, mgVars, hdVars, qVars, mainVars, rvVars>>

MakerNext == AddTemplateRecord

\* add_record on every short sequence of records without selector
SpecMaker == MakerInit /\ [][MakerNext]_vars

ABSENT == "absent"

\* The value a mapping holds under the folded key fk, or ABSENT
ValueAt(data, fk) ==
    LET i == IndexOf(data, fk) IN IF i = 0 THEN ABSENT ELSE data[i].v

\* The layer the last successful add_record constructed
NewestLayer == layers[Len(layers)]

\* What the merge list hands down for a key of config or of vars: the value of
\* the last layer of the list that defines the key, ABSENT when none does.
Inherited(field, fk) ==
    LET defs == {i \in 1..Len(last.lowers) :
                   ValueAt(heap[layers[last.lowers[i]][field]].data, fk) # ABSENT}
        top == CHOOSE i \in defs : \A j \in defs : j <= i
    IN IF defs = {} THEN ABSENT
       ELSE ValueAt(heap[layers[last.lowers[top]][field]].data, fk)

\* The record's own declarations of a key, rendered against the layer's vars
OwnValues(items, fk) ==
    {RenderScalar(items[i][2], LocalsOf(heap[NewestLayer.vars].data, NameOf(last.record))) :
       i \in {j \in 1..Len(items) : casefold(items[j][1]) = fk}}

ConfigFolds == {"a"}
VarKeys == {"v"}

\* C2: in the Layer add_record constructs, every config key (compared
\* case-insensitively) and every vars key holds the record's own declared
\* non-null value when the record declares the key, and otherwise the value of
\* the last layer of the merge list that defines the key (no entry when no layer
\* of the list defines it).
C2_InheritancePrecedence ==
    (Len(layers) > 0 /\ last.err = "") =>
      /\ \A fk \in ConfigFolds :
           LET own == OwnValues(last.record.config, fk)
               got == ValueAt(heap[NewestLayer.config].data, fk)
           IN IF own = {} THEN got = Inherited("config", fk)
              ELSE \A v \in own : v # NULL => got = v
      /\ \A k \in VarKeys :
           LET own == OwnValues(last.record.vars, k)
               got == ValueAt(heap[NewestLayer.vars].data, k)
           IN IF own = {} THEN got = Inherited("vars", k)
              ELSE \A v \in own : v # NULL => got = v

\* A record merged two layers that define the key with different values, declared
\* the key itself, and its own value, not the last merged layer's, is in the Layer.
C2_Witness ==
    /\ Len(layers) > 0 /\ last.err = ""
    /\ Len(last.lowers) = 2
    /\ ValueAt(heap[layers[last.lowers[1]].config].data, "a") \notin {ABSENT, Inherited("config", "a")}
    /\ OwnValues(last.record.config, "a") \cap {ABSENT, NULL, Inherited("config", "a")} = {}
    /\ OwnValues(last.record.config, "a") = {ValueAt(heap[NewestLayer.config].data, "a")}

\* C7: add_record succeeds on a record only if every name of its merge list was
\* registered by an earlier successful add_record; a name that was not (never
\* registered, or the record's own name) makes it fail with 'Undefined record'.
C7_MergeReferenceIntegrity ==
    LET merge == yaml_str_list(last.record.merge)
    IN (Len(layers) > 0 \/ last.err # "") =>
         /\ last.err = "" => \A i \in 1..Len(merge) : merge[i] \in last.before
         /\ (\E i \in 1..Len(merge) : merge[i] \notin last.before) => last.err = UNDEFINED_RECORD

\* A record that merges a registered name and then its own name, which no
\* earlier record registered, failed with 'Undefined record'.
C7_Witness ==
    /\ last.err = UNDEFINED_RECORD
    /\ Len(last.record.merge) = 2
    /\ last.record.merge[1] \in last.before
    /\ last.record.merge[2] = last.record.name
    /\ last.record.name \notin last.before

\* C9: no add_record changes a Layer that exists already (its config, vars, host
\* and match), nor any mapping object that exists already, the two inputs of
\* every merge_config among them.
C9_LayersImmutable ==
    [][/\ \A i \in 1..Len(layers) :
            /\ i <= Len(layers')
            /\ layers'[i] = layers[i]
            /\ heap'[layers[i].config] = heap[layers[i].config]
            /\ heap'[layers[i].vars] = heap[layers[i].vars]
       /\ \A j \in 1..Len(heap) : j <= Len(heap') /\ heap'[j] = heap[j]]_vars

\* A record merged two layers and deleted a key they hand down: the key is gone
\* from the new Layer and still in the merged ones.
C9_Witness ==
    /\ Len(layers) > 0 /\ last.err = ""
    /\ Len(last.lowers) = 2
    /\ last.record.config = <<<<"a", NULL>>>>
    /\ Inherited("config", "a") # ABSENT
    /\ ValueAt(heap[NewestLayer.config].data, "a") = ABSENT

(***************************************************************************)
(* add_record on records that carry a selector                             *)
(***************************************************************************)
EmitHosts == {NoHost, HostOf(<<>>), HostOf(<<"h">>)}
EmitMatches == {NoMatch, [NoMatch EXCEPT !.none = FALSE, !.user = <<"u">>]}

\* Records with a host, a match, both or neither; "" is a record without name.
SelectorRecords ==
    [name : {"", "x"}, merge : {<<>>, <<"x">>}, vars : {<<>>}, config : {<<>>},
     host : EmitHosts, match : EmitMatches]

\* main stops at the first add_record that raises
AddSelectorRecord ==
    /\ Len(layers) < MaxRecords
    /\ last.err = ""
    /\ \E record \in SelectorRecords : AddRecord(record)
    /\ UNCHANGED <<ciVars, mgVars, hdVars, qVars, mainVars, rvVars>>

EmitNext == AddSelectorRecord

\* add_record on every short sequence of records with and without selector
SpecEmit == MakerInit /\ [][EmitNext]_vars

\* C3: after any sequence of successful add_record calls, entries is exactly the
\* layers of the records whose host or match resolved to non-null (an empty host
\* list included), in the order the records were added.
C3_EmissionSequence ==
    last.err = "" => entries = last.emitted

(***************************************************************************)
(* main: parse_args, load, add_record per record, write per entry, flush   *)
(***************************************************************************)
\* The characters of the option values the model uses
CharsOf(value) ==
    CASE value = "a b" -> <<"a", " ", "b">>
      [] value = "a \"b" -> <<"a", " ", "\"", "b">>
      [] OTHER -> <<value>>

RECURSIVE WriteDecls(_, _, _)
\* for option, value in self.iter_decls(): out.write(f'    {option} {maybe_quote(value)}\n')
\* and the closing out.write('\n'); [err, text], text what reached the buffer
WriteDecls(items, i, text) ==
    IF i > Len(items) THEN [err |-> "", text |-> text \o "\n"]
    ELSE LET q == maybe_quote(CharsOf(items[i][2]))
         IN IF q.err # "" THEN [err |-> q.err, text |-> text]
            ELSE WriteDecls(items, i + 1,
                            text \o "    " \o items[i][1] \o " " \o Join(q.out, "") \o "\n")

\* Layer.write(out) for the layer of the heap h: [err, text]
write(h, layer) ==
    LET header == header_line(layer.host, layer.match)
    IN IF header.err # "" THEN [err |-> header.err, text |-> ""]
       ELSE WriteDecls(ItemsOf(h[layer.config]), 1, header.line)

MaxInput == 2

\* The records of the input file: a template, entries that merge a registered
\* and an unregistered name, an entry whose value cannot be quoted, an entry
\* whose match cannot be written.
MainRecords ==
    {[name |-> "x", merge |-> <<>>, vars |-> <<>>, config |-> <<<<"User", "a b">>>>,
      host |-> NoHost, match |-> NoMatch],
     [name |-> "", merge |-> <<"x">>, vars |-> <<>>, config |-> <<>>,
      host |-> HostOf(<<"h">>), match |-> NoMatch],
     [name |-> "", merge |-> <<"y">>, vars |-> <<>>, config |-> <<>>,
      host |-> HostOf(<<"h">>), match |-> NoMatch],
     [name |-> "", merge |-> <<>>, vars |-> <<>>, config |-> <<<<"User", "a \"b">>>>,
      host |-> HostOf(<<"h">>), match |-> NoMatch],
     [name |-> "", merge |-> <<>>, vars |-> <<>>, config |-> <<>>,
      host |-> NoHost, match |-> [NoMatch EXCEPT !.none = FALSE, !.all = TRUE, !.user = <<"u">>]]}

\* Where --output points before the run: standard output, a path with no file,
\* a file with content
Destinations ==
    {[kind |-> "stdout", exists |-> TRUE, content |-> ""],
     [kind |-> "file", exists |-> FALSE, content |-> ""],
     [kind |-> "file", exists |-> TRUE, content |-> "old"]}

MainInit ==
    /\ CIIdle /\ MgIdle /\ HdIdle /\ QIdle /\ RvIdle
    /\ heap = <<>>
    /\ layers = <<>>
    /\ registry = [n \in Names |-> 0]
    /\ entries = <<>>
    /\ last = [record |-> <<>>, err |-> "", lowers |-> <<>>, before |-> {}, named |-> {},
               emitted |-> <<>>]
    /\ main_pc = "parse_args"
    /\ main_records \in UNION {[1..n -> MainRecords] : n \in 0..MaxInput}
    /\ main_i = 0
    /\ main_buf = ""
    /\ main_dest \in Destinations
    /\ main_dest0 = main_dest
    /\ main_err = ""

\* args = p.parse_args(): FileType('w') opens the --output path for writing,
\* which creates the file or truncates it; '-' is sys.stdout
ParseArgs ==
    /\ main_pc = "parse_args"
    /\ main_dest' = IF main_dest.kind = "file"
                    THEN [main_dest EXCEPT !.exists = TRUE, !.content = ""]
                    ELSE main_dest
    /\ main_pc' = "load"
    /\ UNCHANGED <<main_records, main_i, main_buf, main_dest0, main_err>>
    /\ UNCHANGED <<ciVars, mgVars, hdVars, qVars, makerVars, rvVars>>

\* records = yaml.safe_load(args.input.read()); config_maker = ConfigMaker()
Load ==
    /\ main_pc = "load"
    /\ main_i' = 1
    /\ main_pc' = IF Len(main_records) = 0 THEN "write" ELSE "add"
    /\ UNCHANGED <<main_records, main_buf, main_dest, main_dest0, main_err>>
    /\ UNCHANGED <<ciVars, mgVars, hdVars, qVars, makerVars, rvVars>>

\* for record in records: config_maker.add_record(record); an exception ends main
MainAddRecord ==
    /\ main_pc = "add"
    /\ AddRecord(main_records[main_i])
    /\ main_err' = last'.err
    /\ main_pc' = IF last'.err # "" THEN "aborted"
                  ELSE IF main_i = Len(main_records) THEN "write" ELSE "add"
    /\ main_i' = IF last'.err = "" /\ main_i < Len(main_records) THEN main_i + 1 ELSE 1
    /\ UNCHANGED <<main_records, main_buf, main_dest, main_dest0>>
    /\ UNCHANGED <<ciVars, mgVars, hdVars, qVars, rvVars>>

\* for entry in config_maker.entries: entry.write(out), out the StringIO
MainWriteEntry ==
    /\ main_pc = "write"
    /\ main_i <= Len(entries)
    /\ \E w \in {write(heap, layers[entries[main_i]])} :
         /\ main_buf' = main_buf \o w.text
         /\ main_err' = w.err
         /\ main_pc' = IF w.err # "" THEN "aborted" ELSE "write"
    /\ main_i' = main_i + 1
    /\ UNCHANGED <<main_records, main_dest, main_dest0>>
    /\ UNCHANGED <<ciVars, mgVars, hdVars, qVars, makerVars, rvVars>>

\* args.output.write(out.getvalue()); args.output.flush()
MainFlush ==
    /\ main_pc = "write"
    /\ main_i > Len(entries)
    /\ main_dest' = [main_dest EXCEPT !.content = @ \o main_buf]
    /\ main_pc' = "done"
    /\ UNCHANGED <<main_records, main_i, main_buf, main_dest0, main_err>>
    /\ UNCHANGED <<ciVars, mgVars, hdVars, qVars, makerVars, rvVars>>

MainNext == ParseArgs \/ Load \/ MainAddRecord \/ MainWriteEntry \/ MainFlush

\* A run of main on every short input and every kind of destination
SpecMain == MainInit /\ [][MainNext]_vars

\* C8: when an add_record or a Layer.write raises, the output destination is as
\* it was before the run (nothing written, the file neither created nor
\* modified); the destination changes only at the flush that ends a run in
\* which every record was added and every entry serialized.
C8_NoOutputOnError ==
    /\ main_pc = "aborted" => main_dest = main_dest0
    /\ main_dest # main_dest0 => main_pc = "done"

(***************************************************************************)
(* render_value on a graph of list and dict nodes. A node is the sequence  *)
(* of its children: 0 for a scalar, n for the node n. The root is node 1.  *)
(* A frame of rv_stack is one active call: its node, the index of the next *)
(* child, and its local result.                                            *)
(***************************************************************************)
MaxNodes == 2

Nodes == 1..MaxNodes

\* A list or dict of at most two items, each a scalar or a node
KidLists == {<<>>} \cup {<<a>> : a \in 0..MaxNodes} \cup {<<a, b>> : a, b \in 0..MaxNodes}

\* A mutant of the memo: the entry of a node is not recorded when it is entered.
memo_unrecorded(memo, node, result) == memo

\* result = memo[id_] = [] (or {}), before the loop over the children
memo_recorded(memo, node, result) == [memo EXCEPT ![node] = result]

Top == rv_stack[Len(rv_stack)]
Child == rv_graph[Top.node][Top.i]

RvInit ==
    /\ CIIdle /\ MgIdle /\ HdIdle /\ QIdle /\ MakerIdle /\ MainIdle
    /\ rv_graph \in [Nodes -> KidLists]
    /\ rv_stack = <<>>
    /\ rv_memo = [n \in Nodes |-> 0]
    /\ rv_out = <<>>
    /\ rv_calls = [n \in Nodes |-> 0]
    /\ rv_pc = "start"

\* The top-level call render_value(root, locals_): memo = {}, the root is not in
\* it, result = memo[id_] = []
RvStart ==
    /\ rv_pc = "start"
    /\ rv_memo' = memo_recorded(rv_memo, 1, 1)
    /\ rv_out' = <<<<>>>>
    /\ rv_calls' = [rv_calls EXCEPT ![1] = @ + 1]
    /\ rv_stack' = <<[node |-> 1, i |-> 1, result |-> 1]>>
    /\ rv_pc' = "running"
    /\ UNCHANGED rv_graph
    /\ UNCHANGED <<ciVars, mgVars, hdVars, qVars, makerVars, mainVars>>

\* The child is a str, int, bool or None, or a node that is in memo: the
\* recursive call returns at once and its value is appended to result
RvAppendDirect ==
    /\ rv_pc = "running"
    /\ Top.i <= Len(rv_graph[Top.node])
    /\ IF Child = 0 THEN TRUE ELSE rv_memo[Child] # 0
    /\ rv_out' = [rv_out EXCEPT ![Top.result] =
                    Append(@, IF Child = 0 THEN 0 ELSE rv_memo[Child])]
    /\ rv_stack' = [rv_stack EXCEPT ![Len(rv_stack)].i = @ + 1]
    /\ UNCHANGED <<rv_graph, rv_memo, rv_calls, rv_pc>>
    /\ UNCHANGED <<ciVars, mgVars, hdVars, qVars, makerVars, mainVars>>

\* The child is a node that is not in memo: the recursive call makes a new
\* result, records it in memo and starts on the node's children
RvDescend ==
    /\ rv_pc = "running"
    /\ Top.i <= Len(rv_graph[Top.node])
    /\ IF Child = 0 THEN FALSE ELSE rv_memo[Child] = 0
    /\ rv_memo' = memo_recorded(rv_memo, Child, Len(rv_out) + 1)
    /\ rv_out' = Append(rv_out, <<>>)
    /\ rv_calls' = [rv_calls EXCEPT ![Child] = @ + 1]
    /\ rv_stack' = Append(rv_stack, [node |-> Child, i |-> 1, result |-> Len(rv_out) + 1])
    /\ UNCHANGED <<rv_graph, rv_pc>>
    /\ UNCHANGED <<ciVars, mgVars, hdVars, qVars, makerVars, mainVars>>

\* return result: the caller appends it and goes on; the top-level call is done
RvReturn ==
    /\ rv_pc = "running"
    /\ Top.i > Len(rv_graph[Top.node])
    /\ IF Len(rv_stack) = 1
       THEN /\ rv_stack' = <<>>
            /\ rv_pc' = "done"
            /\ UNCHANGED rv_out
       ELSE /\ rv_stack' = [SubSeq(rv_stack, 1, Len(rv_stack) - 1)
                              EXCEPT ![Len(rv_stack) - 1].i = @ + 1]
            /\ rv_out' = [rv_out EXCEPT ![rv_stack[Len(rv_stack) - 1].result] =
                            Append(@, Top.result)]
            /\ UNCHANGED rv_pc
    /\ UNCHANGED <<rv_graph, rv_memo, rv_calls>>
    /\ UNCHANGED <<ciVars, mgVars, hdVars, qVars, makerVars, mainVars>>

RvNext == RvStart \/ RvAppendDirect \/ RvDescend \/ RvReturn

\* One top-level render_value on every small graph, shared nodes and cycles
\* included; the call runs until it returns.
SpecRender == RvInit /\ [][RvNext]_vars /\ WF_vars(RvNext)

\* Each list or dict node is rendered at most once per top-level call.
RenderedOnce == \A n \in Nodes : rv_calls[n] <= 1

\* Once the call has returned, every occurrence of an input node stands for the
\* one result node memo holds for it, and a result has its node's items in order.
SameResult ==
    rv_pc = "done" =>
      \A n \in Nodes :
        rv_memo[n] # 0 =>
          /\ Len(rv_out[rv_memo[n]]) = Len(rv_graph[n])
          /\ \A i \in 1..Len(rv_graph[n]) :
               rv_out[rv_memo[n]][i] =
                 IF rv_graph[n][i] = 0 THEN 0 ELSE rv_memo[rv_graph[n][i]]
          /\ \A m \in Nodes : rv_memo[m] = rv_memo[n] => m = n

\* C10: render_value terminates on every finite graph of lists and mappings,
\* shared nodes and cycles included; each node is rendered at most once per
\* top-level call and every occurrence of an input node maps to the same result.
C10_RenderTerminates ==
    /\ [](RenderedOnce /\ SameResult)
    /\ <>(rv_pc = "done")

\* The call returned on a graph where the root holds node 2 twice and node 2
\* holds the root: a shared node on a cycle.
C10_Witness ==
    /\ rv_pc = "done"
    /\ rv_graph[1] = <<2, 2>>
    /\ rv_graph[2] = <<1>>
    /\ rv_calls[2] = 1
    /\ rv_out = <<<<2, 2>>, <<1>>>>

====
